---- MODULE Spec2Model ----
(***************************************************************************)
(* Simple Search Service (src/main.py): a FastAPI application that fetches *)
(* the upstream /messages collection once in its startup handler, keeps a  *)
(* process-global MESSAGE_INDEX of {raw, search_text} entries, and serves  *)
(* GET /search, GET /health and GET /.                                     *)
(*                                                                         *)
(* Python strings are modelled as sequences of one-character strings, so   *)
(* that str.lower, str.upper, str.strip, str.split and the `in` substring  *)
(* test are computed character by character as CPython computes them.      *)
(***************************************************************************)
EXTENDS Integers, Sequences, FiniteSets, TLC

\* ------------------------------------------------------------------ bounds
MaxRecords == 3        \* longest upstream record sequence explored
MaxPage == 3           \* largest `page` explored

\* ------------------------------------------------------- program constants
PAGE_GE == 1           \* page: int = Query(1, ge=1)
PAGE_SIZE_GE == 1      \* page_size: int = Query(10, ge=1, le=100)
PAGE_SIZE_LE == 100
Q_MIN_LENGTH == 1      \* q: str = Query(..., min_length=1)
HTTP_NOT_READY == 503  \* HTTPException(status_code=503, ...)

\* ------------------------------------------------------------ Python str
\* The one-character string U+00DF (LATIN SMALL LETTER SHARP S), kept as an
\* ASCII atom; every other character is written as itself.
SHARP_S == "sharp_s"

\* str.isspace() for one character (the characters the model uses).
IsSpace(c) == c \in {" ", "\t"}

\* str.lower() of one character.  Python's lower() leaves U+00DF unchanged.
LowerChar(c) ==
  CASE c = "A" -> "a"
    [] c = "B" -> "b"
    [] c = "S" -> "s"
    [] c = "N" -> "n"
    [] c = "O" -> "o"
    [] c = "E" -> "e"
    [] c = "X" -> "x"
    [] OTHER -> c

py_lower(s) == [i \in 1..Len(s) |-> LowerChar(s[i])]

RECURSIVE py_lstrip(_)
py_lstrip(s) ==
  IF s # <<>> /\ IsSpace(Head(s)) THEN py_lstrip(Tail(s)) ELSE s

RECURSIVE py_rstrip(_)
py_rstrip(s) ==
  IF s # <<>> /\ IsSpace(s[Len(s)]) THEN py_rstrip(SubSeq(s, 1, Len(s) - 1)) ELSE s

py_strip(s) == py_rstrip(py_lstrip(s))

\* str.split() with no separator: skip a run of whitespace, collect the
\* characters up to the next whitespace as one word, repeat.  `cur` is the
\* word being collected and `inword` says whether one is open.
RECURSIVE split_from(_, _, _, _)
split_from(s, cur, inword, acc) ==
  IF s = <<>> THEN (IF inword THEN Append(acc, cur) ELSE acc)
  ELSE IF IsSpace(Head(s))
       THEN split_from(Tail(s), <<>>, FALSE, IF inword THEN Append(acc, cur) ELSE acc)
       ELSE split_from(Tail(s), Append(cur, Head(s)), TRUE, acc)

py_split(s) == split_from(s, <<>>, FALSE, <<>>)

\* " ".join(parts)
RECURSIVE py_join(_)
py_join(parts) ==
  IF parts = <<>> THEN <<>>
  ELSE IF Len(parts) = 1 THEN parts[1]
  ELSE parts[1] \o <<" ">> \o py_join(Tail(parts))

\* `token in text` for two strings: some window of text equals token.
py_in(token, text) ==
  \E i \in 0..(Len(text) - Len(token)) : SubSeq(text, i + 1, i + Len(token)) = token

\* seq[start:end] for 0 <= start <= end: indices clamped to the length.
py_slice(seq, start, end) ==
  LET lo == IF start > Len(seq) THEN Len(seq) ELSE start
      hi == IF end > Len(seq) THEN Len(seq) ELSE end
  IN IF hi <= lo THEN <<>> ELSE SubSeq(seq, lo + 1, hi)

\* The elements of a sequence.
RangeOf(seq) == { seq[i] : i \in 1..Len(seq) }

\* ------------------------------------------------------------ JSON values
\* A field value of a message is [t, s, n]: t is the Python type of the value
\* ("str", "int", "NoneType"), s the characters of a str, n the value of an
\* int.  Absent marks a key that the dict does not have.
JStr(s) == [t |-> "str", s |-> s, n |-> 0]
JInt(n) == [t |-> "int", s |-> <<>>, n |-> n]
JNull == [t |-> "NoneType", s |-> <<>>, n |-> 0]
Absent == [t |-> "absent", s |-> <<>>, n |-> 0]

\* str(int) for the one-digit ints the model uses.
DigitChar(n) ==
  CASE n = 0 -> "0" [] n = 1 -> "1" [] n = 2 -> "2" [] n = 3 -> "3" [] n = 4 -> "4"
    [] n = 5 -> "5" [] n = 6 -> "6" [] n = 7 -> "7" [] n = 8 -> "8" [] OTHER -> "9"

\* str(value): a str is itself, None is "None", an int its decimal digits.
py_str(v) ==
  CASE v.t = "str" -> v.s
    [] v.t = "NoneType" -> <<"N", "o", "n", "e">>
    [] v.t = "int" -> <<DigitChar(v.n)>>

\* msg.get(key, ""): the value under key, or "" when msg has no such key.
dict_get(msg, key) ==
  LET v == IF key = "user_name" THEN msg.user_name ELSE msg.message
  IN IF v = Absent THEN JStr(<<>>) ELSE v

\* An element of the upstream sequence is [t, id, user_name, message]: a
\* message dict (t = "dict") with its id and its two searched fields, or a
\* value of another type (which has no .get).
Msg(id, user_name, message) ==
  [t |-> "dict", id |-> id, user_name |-> user_name, message |-> message]
NotADict(t) == [t |-> t, id |-> 0, user_name |-> Absent, message |-> Absent]

\* ------------------------------------------------------------ the indexer
extract_searchable_text(msg) ==
  LET parts == << py_str(dict_get(msg, "user_name")), py_str(dict_get(msg, "message")) >>
  IN py_lower(py_join(parts))

IndexEntry(msg) == [raw |-> msg, search_text |-> extract_searchable_text(msg)]

\* ------------------------------------------------------- the query engine
\* (mutation of AllTokensIn: any() in place of all())
AnyTokenIn(tokens, text) == \E k \in 1..Len(tokens) : py_in(tokens[k], text)

\* all(token in text for token in tokens)
AllTokensIn(tokens, text) == \A k \in 1..Len(tokens) : py_in(tokens[k], text)

\* The loop of search_messages over the index, from entry i on.
RECURSIVE scan_index(_, _, _, _)
scan_index(index, tokens, i, results) ==
  IF i > Len(index) THEN results
  ELSE scan_index(index, tokens, i + 1,
                  IF AllTokensIn(tokens, index[i].search_text)
                  THEN Append(results, index[i].raw)
                  ELSE results)

\* (mutation of search_messages: no early return for a blank query)
search_messages_no_early_return(query, index) ==
  LET q == py_lower(py_strip(query))
      tokens == SelectSeq(py_split(q), LAMBDA t : t # <<>>)
  IN scan_index(index, tokens, 1, <<>>)

search_messages(query, index) ==
  LET q == py_lower(py_strip(query))
      tokens == SelectSeq(py_split(q), LAMBDA t : t # <<>>)
  IN IF q = <<>> THEN <<>> ELSE scan_index(index, tokens, 1, <<>>)

\* ------------------------------------------------- upstream response bodies
\* A value that load_messages_into_index may iterate is [t, elems]: its Python
\* type and what iterating it yields (the elements of a list, the characters
\* of a str, the keys of a dict; an int and None are not iterable).
JList(elems) == [t |-> "list", elems |-> elems]
StrValue(n) == [t |-> "str", elems |-> [i \in 1..n |-> NotADict("str")]]
EmptyDict == [t |-> "dict", elems |-> <<>>]
Scalar(t) == [t |-> t, elems |-> <<>>]
NoItems == [t |-> "absent", elems |-> <<>>]

\* The parsed top-level value is [t, elems, items]: items is the value under
\* the key "items" of a dict (NoItems when the dict has no such key).
TopList(elems) == [t |-> "list", elems |-> elems, items |-> NoItems]
TopDict(items) == [t |-> "dict", elems |-> <<>>, items |-> items]
TopScalar(t) == [t |-> t, elems |-> <<>>, items |-> NoItems]
NoData == [t |-> "unset", elems |-> <<>>, items |-> NoItems]

\* The records the upstream serves in the model.
Records ==
  { Msg(1, JStr(<<"A", " ", "b">>), JInt(7)),
    Msg(2, JNull, JStr(<<SHARP_S>>)),
    Msg(3, Absent, JStr(<<"A">>)) }

Elements == Records \cup { NotADict("int") }

SeqsUpTo(S, n) == UNION { [1..k -> S] : k \in 0..n }

ItemsValues ==
  { JList(e) : e \in SeqsUpTo(Elements, 1) }
    \cup { StrValue(0), StrValue(2), EmptyDict, Scalar("int"), Scalar("NoneType") }

Bodies ==
  { TopList(e) : e \in SeqsUpTo(Elements, MaxRecords) }
    \cup { TopDict(v) : v \in ItemsValues \cup { NoItems } }
    \cup { TopScalar("str"), TopScalar("NoneType") }

Statuses == { 200, 404, 500 }

\* ------------------------------------------------------------ requests
Queries ==
  { <<>>, <<" ">>, <<" ", "\t">>,
    <<"a">>, <<"A">>, <<"x">>,
    <<" ", "A", "\t", " ", "B", " ">>, <<"a", " ", "x">>,
    <<SHARP_S>>, <<"n", "o", "n", "e">> }

Pages == 0..MaxPage
PageSizes == { 0, 1, 2, PAGE_SIZE_LE, PAGE_SIZE_LE + 1 }

\* The HTTP response of the service, as [endpoint, status, query, total, page,
\* page_size, items, indexed_messages, invalid]; a field an answer does not
\* carry is left at its zero.  invalid is the set of parameters a 422 names.
Response(endpoint, status) ==
  [endpoint |-> endpoint, status |-> status, query |-> <<>>, total |-> 0,
   page |-> 0, page_size |-> 0, items |-> <<>>, indexed_messages |-> 0,
   invalid |-> {}]

NoResponse == Response("none", 0)

\* --------------------------------------------------------------- the state
VARIABLES
  lifespan,       \* "pending", "startup", "complete" or "failed": the app's startup
  pc,             \* where load_messages_into_index is
  data,           \* load's local: the parsed body
  raw_messages,   \* load's local: the value it iterates
  new_index,      \* load's local: the list its comprehension is building
  error,          \* the exception that left load_messages_into_index, or "none"
  MESSAGE_INDEX,  \* the process-global index
  resp,           \* the last HTTP response sent
  observed        \* the MESSAGE_INDEX object the last /search or /health handler read

vars == << lifespan, pc, data, raw_messages, new_index, error, MESSAGE_INDEX, resp, observed >>

loadvars == << lifespan, pc, data, raw_messages, new_index, error, MESSAGE_INDEX >>

Init ==
  /\ lifespan = "pending"
  /\ pc = "not_called"
  /\ data = NoData
  /\ raw_messages = NoItems
  /\ new_index = <<>>
  /\ error = "none"
  /\ MESSAGE_INDEX = <<>>
  /\ resp = NoResponse
  /\ observed = <<>>

\* ------------------------------------------------- load_messages_into_index
\* An exception leaves load_messages_into_index; startup_event does not catch
\* it, so it leaves the startup handler too and the application's startup fails.
Raise(exc) ==
  /\ pc' = "raised"
  /\ error' = exc
  /\ lifespan' = "failed"

\* The startup handler runs and load_messages_into_index sends its GET.
startup_event ==
  /\ lifespan = "pending"
  /\ lifespan' = "startup"
  /\ pc' = "await_get"
  /\ UNCHANGED << data, raw_messages, new_index, error, MESSAGE_INDEX, resp, observed >>

\* client.get raises: timeout, connection or DNS failure.
get_transport_error ==
  /\ pc = "await_get"
  /\ Raise("TransportError")
  /\ UNCHANGED << data, raw_messages, new_index, MESSAGE_INDEX, resp, observed >>

\* client.get returns (redirects already followed): raise_for_status, then
\* resp.json().
get_returns(status, is_json, body) ==
  /\ pc = "await_get"
  /\ IF status >= 400
     THEN Raise("HTTPStatusError") /\ UNCHANGED data
     ELSE IF ~is_json
          THEN Raise("JSONDecodeError") /\ UNCHANGED data
          ELSE /\ data' = body
               /\ pc' = "normalize"
               /\ UNCHANGED << error, lifespan >>
  /\ UNCHANGED << raw_messages, new_index, MESSAGE_INDEX, resp, observed >>

\* if isinstance(data, list) ... elif isinstance(data, dict) and "items" in data
\* ... else raise RuntimeError.
normalize ==
  /\ pc = "normalize"
  /\ IF data.t = "list"
     THEN /\ raw_messages' = JList(data.elems)
          /\ pc' = "comprehension"
          /\ UNCHANGED << error, lifespan >>
     ELSE IF data.t = "dict" /\ data.items # NoItems
          THEN /\ raw_messages' = data.items
               /\ pc' = "comprehension"
               /\ UNCHANGED << error, lifespan >>
          ELSE Raise("RuntimeError") /\ UNCHANGED raw_messages
  /\ UNCHANGED << data, new_index, MESSAGE_INDEX, resp, observed >>

\* (mutation of comprehension: each entry is appended to the global list as it
\* is built)
comprehension_publishing ==
  /\ pc = "comprehension"
  /\ IF raw_messages.t \in { "int", "NoneType" }
     THEN Raise("TypeError") /\ UNCHANGED << new_index, MESSAGE_INDEX >>
     ELSE IF Len(new_index) < Len(raw_messages.elems)
          THEN LET msg == raw_messages.elems[Len(new_index) + 1]
               IN IF msg.t # "dict"
                  THEN Raise("AttributeError") /\ UNCHANGED << new_index, MESSAGE_INDEX >>
                  ELSE /\ new_index' = Append(new_index, IndexEntry(msg))
                       /\ MESSAGE_INDEX' = Append(MESSAGE_INDEX, IndexEntry(msg))
                       /\ UNCHANGED << pc, error, lifespan >>
          ELSE /\ pc' = "store"
               /\ UNCHANGED << new_index, MESSAGE_INDEX, error, lifespan >>
  /\ UNCHANGED << data, raw_messages, resp, observed >>

\* One iteration of the list comprehension [{...} for msg in raw_messages]:
\* the entries go to a new list, which is not yet MESSAGE_INDEX.
comprehension ==
  /\ pc = "comprehension"
  /\ IF raw_messages.t \in { "int", "NoneType" }
     THEN Raise("TypeError") /\ UNCHANGED new_index
     ELSE IF Len(new_index) < Len(raw_messages.elems)
          THEN LET msg == raw_messages.elems[Len(new_index) + 1]
               IN IF msg.t # "dict"
                  THEN Raise("AttributeError") /\ UNCHANGED new_index
                  ELSE /\ new_index' = Append(new_index, IndexEntry(msg))
                       /\ UNCHANGED << pc, error, lifespan >>
          ELSE /\ pc' = "store"
               /\ UNCHANGED << new_index, error, lifespan >>
  /\ UNCHANGED << data, raw_messages, MESSAGE_INDEX, resp, observed >>

\* MESSAGE_INDEX = [...]: the finished list is bound to the global name; load
\* returns and the startup handler completes.
store_index ==
  /\ pc = "store"
  /\ MESSAGE_INDEX' = new_index
  /\ pc' = "returned"
  /\ lifespan' = "complete"
  /\ UNCHANGED << data, raw_messages, new_index, error, resp, observed >>

\* ----------------------------------------------------------- the endpoints
\* The application answers requests until its startup has failed.
Serving == lifespan # "failed"

\* The Query(...) constraints of /search: the parameters that fail them.
InvalidParams(q, page, page_size) ==
  (IF Len(q) >= Q_MIN_LENGTH THEN {} ELSE { "q" })
    \cup (IF page >= PAGE_GE THEN {} ELSE { "page" })
    \cup (IF page_size >= PAGE_SIZE_GE /\ page_size <= PAGE_SIZE_LE THEN {} ELSE { "page_size" })

\* (mutation of search_handler: the not-ready test is missing)
search_handler_unguarded(q, page, page_size, index) ==
  LET all_results == search_messages(q, index)
      start == (page - 1) * page_size
  IN [ Response("search", 200) EXCEPT
         !.query = q, !.total = Len(all_results), !.page = page,
         !.page_size = page_size,
         !.items = py_slice(all_results, start, start + page_size) ]

\* (mutation of search_handler: the page starts at page * page_size)
search_handler_zero_based(q, page, page_size, index) ==
  IF index = <<>>
  THEN Response("search", HTTP_NOT_READY)
  ELSE LET all_results == search_messages(q, index)
           start == page * page_size
       IN [ Response("search", 200) EXCEPT
              !.query = q, !.total = Len(all_results), !.page = page,
              !.page_size = page_size,
              !.items = py_slice(all_results, start, start + page_size) ]

\* The body of the /search handler, given the index it reads.
search_handler(q, page, page_size, index) ==
  IF index = <<>>
  THEN Response("search", HTTP_NOT_READY)
  ELSE LET all_results == search_messages(q, index)
           total == Len(all_results)
           start == (page - 1) * page_size
           end == start + page_size
           page_items == py_slice(all_results, start, end)
       IN [ Response("search", 200) EXCEPT
              !.query = q, !.total = total, !.page = page,
              !.page_size = page_size, !.items = page_items ]

\* (mutation of search: the handler filters the global list in place)
search_in_place(q, page, page_size) ==
  /\ Serving
  /\ InvalidParams(q, page, page_size) = {}
  /\ resp' = search_handler(q, page, page_size, MESSAGE_INDEX)
  /\ observed' = MESSAGE_INDEX
  /\ MESSAGE_INDEX' = SelectSeq(MESSAGE_INDEX, LAMBDA e : e.raw \in RangeOf(resp'.items))
  /\ UNCHANGED << lifespan, pc, data, raw_messages, new_index, error >>

\* GET /search: FastAPI validates the parameters (422 names the ones that
\* fail) and only then runs the handler.
search(q, page, page_size) ==
  /\ Serving
  /\ IF InvalidParams(q, page, page_size) = {}
     THEN /\ resp' = search_handler(q, page, page_size, MESSAGE_INDEX)
          /\ observed' = MESSAGE_INDEX
     ELSE /\ resp' = [ Response("search", 422) EXCEPT
                         !.invalid = InvalidParams(q, page, page_size) ]
          /\ UNCHANGED observed
  /\ UNCHANGED loadvars

health ==
  /\ Serving
  /\ resp' = [ Response("health", 200) EXCEPT !.indexed_messages = Len(MESSAGE_INDEX) ]
  /\ observed' = MESSAGE_INDEX
  /\ UNCHANGED loadvars

root ==
  /\ Serving
  /\ resp' = Response("root", 200)
  /\ UNCHANGED observed
  /\ UNCHANGED loadvars

Next ==
  \/ startup_event
  \/ get_transport_error
  \/ \E status \in Statuses, is_json \in BOOLEAN, body \in Bodies :
       get_returns(status, is_json, body)
  \/ normalize
  \/ comprehension
  \/ store_index
  \/ \E q \in Queries, page \in Pages, page_size \in PageSizes : search(q, page, page_size)
  \/ health
  \/ root

Spec == Init /\ [][Next]_vars

\* ------------------------------------------------------------------ claims
\* Vocabulary of the claims, stated without the code's loops.
\* The maximal whitespace-free runs of s.
WordsOf(s) ==
  { SubSeq(s, i, j) : <<i, j>> \in
      { w \in (1..Len(s)) \X (1..Len(s)) :
          /\ w[1] <= w[2]
          /\ \A k \in w[1]..w[2] : ~IsSpace(s[k])
          /\ (w[1] = 1 \/ IsSpace(s[w[1] - 1]))
          /\ (w[2] = Len(s) \/ IsSpace(s[w[2] + 1])) } }

LowerTokens(q) == { py_lower(w) : w \in WordsOf(q) }

\* The positions of the entries whose search_text contains every token of q.
MatchingPositions(q, index) ==
  { i \in 1..Len(index) : \A t \in LowerTokens(q) : py_in(t, index[i].search_text) }

\* The k-th smallest element of a set of positions.
NthPosition(P, k) == CHOOSE p \in P : Cardinality({ x \in P : x < p }) = k - 1

\* The raw records at the positions P, in index order.
RawsAt(index, P) == [k \in 1..Cardinality(P) |-> index[NthPosition(P, k)].raw]

ClaimTokens == { <<"a">>, <<"b">>, <<"n">>, <<SHARP_S>>, <<"x">> }

\* C1: for every query with at least one token, search_messages returns exactly
\* the raw records of the entries whose search_text contains every lowercased
\* whitespace-delimited token of the query, in index order (nothing reordered,
\* duplicated or left out); and for two tokens t1, t2 the result of "t1 t2" is
\* the result of "t1" restricted to the records in the result of "t2".
C1_ConjunctiveInOrder ==
  /\ \A q \in Queries :
       LowerTokens(q) # {} =>
         search_messages(q, MESSAGE_INDEX)
           = RawsAt(MESSAGE_INDEX, MatchingPositions(q, MESSAGE_INDEX))
  /\ \A t1 \in ClaimTokens, t2 \in ClaimTokens :
       LET both == search_messages(t1 \o <<" ">> \o t2, MESSAGE_INDEX)
           r1 == search_messages(t1, MESSAGE_INDEX)
           r2 == search_messages(t2, MESSAGE_INDEX)
       IN both = SelectSeq(r1, LAMBDA r : r \in RangeOf(r2))
  /\ (resp.endpoint = "search" /\ resp.status = 200 /\ LowerTokens(resp.query) # {}) =>
       resp.total = Cardinality(MatchingPositions(resp.query, observed))

\* A two-token query answered from an index where it selects two entries and
\* leaves another out.
C1_Witness ==
  /\ resp.endpoint = "search" /\ resp.status = 200
  /\ Cardinality(LowerTokens(resp.query)) = 2
  /\ resp.total = 2
  /\ Len(observed) = 3
  /\ observed = MESSAGE_INDEX

\* C2: an answer of GET /search that is not a rejection of its parameters is
\* the not-ready error (503) exactly when the index the handler read holds no
\* entries, and 200 otherwise; so a query that matches nothing on a non-empty
\* index is answered 200 with total = 0 and no items, and a request on an
\* empty index is never answered 200.  (A rejection, 422, names a parameter
\* that fails its constraint and says nothing of the index.)
C2_NotReadyIffEmpty ==
  resp.endpoint = "search" =>
    /\ resp.status \in { 200, HTTP_NOT_READY, 422 }
    /\ resp.status = 422 => resp.invalid # {}
    /\ resp.status = HTTP_NOT_READY => observed = <<>>
    /\ resp.status = 200 => observed # <<>> /\ resp.invalid = {}
    /\ (resp.status # 422 /\ observed = <<>>) => resp.status = HTTP_NOT_READY
    /\ (resp.status # 422 /\ observed # <<>>) => resp.status = 200
    /\ (resp.status = 200 /\ MatchingPositions(resp.query, observed) = {}) =>
         resp.total = 0 /\ resp.items = <<>>

\* A query with a token that no entry contains, answered 200 with nothing
\* from a non-empty index.
C2_Witness ==
  /\ resp.endpoint = "search" /\ resp.status = 200
  /\ LowerTokens(resp.query) # {}
  /\ resp.total = 0 /\ resp.items = <<>>
  /\ observed # <<>>

\* The items of pages first..last of one query and page_size, concatenated.
RECURSIVE ConcatPages(_, _, _, _, _)
ConcatPages(q, page_size, index, first, last) ==
  IF first > last THEN <<>>
  ELSE search_handler(q, first, page_size, index).items
         \o ConcatPages(q, page_size, index, first + 1, last)

\* C5: for the non-empty index, the query and the page_size of an answered
\* search, the items of pages 1..N in page order are the full result set (no
\* overlap, no gap); a page that ends within the results has exactly page_size
\* items, the page the results end in has the remainder, a page that starts at
\* or beyond the result count is empty and still 200; and every page reports
\* the same total, the size of the unpaginated result set.
C5_PagesCoverResults ==
  (resp.endpoint = "search" /\ resp.status = 200) =>
    LET q == resp.query
        page_size == resp.page_size
        full == search_messages(q, observed)
        N == Len(full) + 1
        P(p) == search_handler(q, p, page_size, observed)
    IN /\ ConcatPages(q, page_size, observed, 1, N) = full
       /\ resp.total = Len(full)
       /\ \A p \in 1..(N + 1) :
            /\ P(p).status = 200
            /\ P(p).total = Len(full)
            /\ p * page_size <= Len(full) => Len(P(p).items) = page_size
            /\ ((p - 1) * page_size < Len(full) /\ Len(full) < p * page_size) =>
                 Len(P(p).items) = Len(full) - (p - 1) * page_size
            /\ (p - 1) * page_size >= Len(full) => P(p).items = <<>>
       /\ resp = P(resp.page)

\* The second page of three results at page_size 2: the shorter last page.
C5_Witness ==
  /\ resp.endpoint = "search" /\ resp.status = 200
  /\ resp.page = 2 /\ resp.page_size = 2
  /\ resp.total = 3 /\ Len(resp.items) = 1

\* C6: a query that is empty or only whitespace has no tokens, and
\* search_messages returns the empty sequence for it whatever the index holds;
\* GET /search with a whitespace-only q on a non-empty index answers 200 with
\* total = 0.
C6_BlankQueryMatchesNothing ==
  /\ \A q \in Queries :
       (\A i \in 1..Len(q) : IsSpace(q[i])) =>
         /\ LowerTokens(q) = {}
         /\ py_split(py_lower(py_strip(q))) = <<>>
         /\ search_messages(q, MESSAGE_INDEX) = <<>>
         /\ (q # <<>> /\ MESSAGE_INDEX # <<>>) =>
              LET r == search_handler(q, 1, 10, MESSAGE_INDEX)
              IN r.status = 200 /\ r.total = 0 /\ r.items = <<>>
  /\ (resp.endpoint = "search" /\ resp.status = 200
        /\ \A i \in 1..Len(resp.query) : IsSpace(resp.query[i])) =>
       resp.total = 0 /\ resp.items = <<>>

\* A whitespace-only q answered from an index of three entries.
C6_Witness ==
  /\ resp.endpoint = "search" /\ resp.status = 200
  /\ resp.query = <<" ", "\t">>
  /\ resp.total = 0
  /\ Len(observed) = 3

\* C4: once load_messages_into_index has failed (whatever raised), the global
\* index is what it was before the call, which is the empty index the process
\* starts with; nothing built before the failure is installed.
C4_FailedLoadKeepsIndex ==
  (pc = "raised" \/ error # "none") => MESSAGE_INDEX = <<>>

\* A load that fails on a later element, after entries were already built.
C4_Witness ==
  /\ pc = "raised"
  /\ error = "AttributeError"
  /\ Len(new_index) >= 1

\* The index that a complete build over the iterated value yields.
CompleteIndex(value) ==
  [i \in 1..Len(value.elems) |->
     [raw |-> value.elems[i], search_text |-> extract_searchable_text(value.elems[i])]]

\* C8: whatever the interleaving of the load with /search, /health and /, a
\* handler reads either the index from before the build (empty) or the
\* complete new index, never a part of it; and only the load's store changes
\* the index: every other step, the three endpoints among them, leaves it as
\* it was.
C8_AtomicSwapReadOnly ==
  /\ [](/\ (observed = <<>> \/ observed = CompleteIndex(raw_messages))
        /\ (MESSAGE_INDEX = <<>> \/ MESSAGE_INDEX = CompleteIndex(raw_messages)))
  /\ [][MESSAGE_INDEX' # MESSAGE_INDEX => pc = "store" /\ resp' = resp]_vars
  /\ [][resp' # resp => MESSAGE_INDEX' = MESSAGE_INDEX]_vars

\* A /health answered while the build is under way (one entry built, more to
\* come) that still reports the empty index.
C8_Witness ==
  /\ pc = "comprehension"
  /\ Len(new_index) >= 1
  /\ Len(new_index) < Len(raw_messages.elems)
  /\ resp.endpoint = "health"
  /\ resp.indexed_messages = 0
  /\ observed = <<>>

\* C3: a failure of the startup fetch-and-index (bad HTTP status, transport
\* failure, unexpected shape) is not fatal: afterwards the service is still
\* up with an empty index, so that /search can answer not-ready and /health
\* can answer 200 with indexed_messages = 0.
C3_StartupFailureNonFatal ==
  error \in { "HTTPStatusError", "TransportError", "RuntimeError" } =>
    /\ Serving
    /\ MESSAGE_INDEX = <<>>
    /\ ENABLED health

\* Python's str.upper() of one character, as a string: U+00DF uppercases to
\* "SS".  (The code never upper-cases; the claim does.)
UpperChar(c) ==
  CASE c = "a" -> <<"A">>
    [] c = "b" -> <<"B">>
    [] c = "s" -> <<"S">>
    [] c = "n" -> <<"N">>
    [] c = "o" -> <<"O">>
    [] c = "e" -> <<"E">>
    [] c = "x" -> <<"X">>
    [] c = SHARP_S -> <<"S", "S">>
    [] OTHER -> <<c>>

RECURSIVE py_upper(_)
py_upper(s) == IF s = <<>> THEN <<>> ELSE UpperChar(Head(s)) \o py_upper(Tail(s))

\* A message with the letters of its two searched str fields upper-cased.
UpperCased(msg) ==
  [ msg EXCEPT
      !.user_name = IF @.t = "str" THEN JStr(py_upper(@.s)) ELSE @,
      !.message = IF @.t = "str" THEN JStr(py_upper(@.s)) ELSE @ ]

\* C7: search is case-insensitive: search_messages gives the same records for
\* q, q.upper() and q.lower(), and upper-casing a record's user_name and
\* message before indexing does not change which queries match it.
C7_CaseInsensitive ==
  \A q \in Queries :
    /\ search_messages(py_upper(q), MESSAGE_INDEX) = search_messages(q, MESSAGE_INDEX)
    /\ search_messages(py_lower(q), MESSAGE_INDEX) = search_messages(q, MESSAGE_INDEX)
    /\ \A i \in 1..Len(MESSAGE_INDEX) :
         LET msg == MESSAGE_INDEX[i].raw
         IN (search_messages(q, << IndexEntry(msg) >>) = <<>>)
              <=> (search_messages(q, << IndexEntry(UpperCased(msg)) >>) = <<>>)

\* The value of a field as the claim reads it: the str itself, and the empty
\* string when the key is absent or the value is not a str.
StrOrEmpty(v) == IF v.t = "str" THEN v.s ELSE <<>>

\* C9: after a successful build from r1..rn the index has n entries, entry i
\* has raw = ri and search_text = lowercase(u + " " + m), u and m being ri's
\* user_name and message, each the empty string when absent or not a string.
C9_EntriesFromRecords ==
  pc = "returned" =>
    /\ Len(MESSAGE_INDEX) = Len(raw_messages.elems)
    /\ \A i \in 1..Len(MESSAGE_INDEX) :
         LET r == raw_messages.elems[i]
         IN /\ MESSAGE_INDEX[i].raw = r
            /\ MESSAGE_INDEX[i].search_text
                 = py_lower(StrOrEmpty(r.user_name) \o <<" ">> \o StrOrEmpty(r.message))

\* C10: shape normalization: a top-level sequence is the record sequence; a
\* mapping whose key items holds a sequence gives that sequence; in every other
\* case (a mapping whose items is not a sequence, a mapping without items, any
\* other value) the load fails with the shape error and builds no index.
C10_ShapeNormalization ==
  (data # NoData /\ pc # "normalize") =>
    IF data.t = "list"
    THEN raw_messages = JList(data.elems) /\ error # "RuntimeError"
    ELSE IF data.t = "dict" /\ data.items.t = "list"
         THEN raw_messages = data.items /\ error # "RuntimeError"
         ELSE /\ pc = "raised"
              /\ error = "RuntimeError"
              /\ new_index = <<>>
              /\ MESSAGE_INDEX = <<>>

====
